---- MODULE Spec2Model ----
(***************************************************************************)
(* The inter-process message bus (MessageBus): MessageBus::write splits a  *)
(* payload into [DataHead | slice] records, the kernel carries the records *)
(* to the receiving socket, MessageBus::read / read_with_buffer reassemble *)
(* them in packet_pool_, get_packet / move_packet hand the payload out.    *)
(*                                                                         *)
(* Sizes are counted in cells: one cell per DataHead field, one cell per   *)
(* payload byte.  A cell on a socket is <<value, msg, record, position>>;  *)
(* the code reads only the value, the other three say where the sender put *)
(* the cell and are used by the properties alone.                          *)
(***************************************************************************)
EXTENDS Integers, Sequences, FiniteSets, TLC

\* ----------------------------------------------------------------- state
VARIABLES
  mode,            \* "stream": read on a pipe; "dgram": read_with_buffer
  buffer_size,     \* buffer_size_ of the buses
  always_chunked,  \* always_chunked_transfer_
  shorts,          \* how many more reads may return less than is there
  faults,          \* which calls may fail: "none", "send", "all", "short"
                   \* (sends refused or accepted in part) or "alloc"
  nsend,           \* how many senders write to the receiver
  next_id,         \* the value id_generator_ returns next
  wire,            \* per sender, the records written and not yet arrived
  writes,          \* history: per call of write, what it did
  sock,            \* the receiving socket: cells (stream) or datagrams
  info,            \* buffer_->info
  data,            \* buffer_->data
  pool,            \* packet_pool_
  pc,              \* "idle", or "loop": inside read, at _read_from_pipe
  recv_chunk_count,
  ret,             \* what the last invocation of the reader returned
  rc,              \* the step that made it return
  errno,           \* the error the last pass met on the socket, if any
  recs,            \* history: records the running invocation has read
  delivered,       \* history: header and get_packet() at every READY
  moved,           \* what the last move_packet() returned
  restarts,
  ub               \* the reader has written outside a buffer

vars ==
  <<mode, buffer_size, always_chunked, shorts, faults, nsend, next_id, wire, writes, sock,
    info, data, pool, pc, recv_chunk_count, ret, rc, errno, recs, delivered,
    moved, restarts, ub>>

\* ------------------------------------------------------------------ bounds
\* longest payload a caller hands to write
MaxLen == 4
\* payload capacity of the larger of the two configured buffer sizes
BigChunk == 2
\* reads that return less than the socket holds, per run
MaxShort == 1
\* longest payload when two senders write to the same receiver
MaxLenTwo == 3
\* number of times the owning worker is torn down and constructed again
MaxRestarts == 1

\* the hard floor of the chunk size, in cells (8192 bytes in the build)
SW_IPC_BUFFER_SIZE == 1
\* fair-share limit of chunks per reader invocation (1024 in the build)
SW_WORKER_MAX_RECV_CHUNK_COUNT == 2

\* ------------------------------------------------------- program constants

SW_EVENT_DATA_PTR == 2
SW_EVENT_DATA_CHUNK == 4
SW_EVENT_DATA_BEGIN == 8
SW_EVENT_DATA_END == 16
SW_EVENT_DATA_OBJ_PTR == 32

SW_OK == 0
SW_ERR == -1

\* ------------------------------------------------------------ flag algebra
HasFlag(flags, bit) == (flags \div bit) % 2 = 1
SetFlag(flags, bit) == IF HasFlag(flags, bit) THEN flags ELSE flags + bit
ClearFlag(flags, bit) == IF HasFlag(flags, bit) THEN flags - bit ELSE flags

\* -------------------------------------------------------------- DataHead
ZeroHead ==
  [fd |-> 0, msg_id |-> 0, len |-> 0, reactor_id |-> 0, type |-> 0,
   flags |-> 0, server_fd |-> 0, ext_flags |-> 0, time |-> 0]

\* the header as it lies in memory and on the wire, field after field
Encode(h) ==
  <<h.fd, h.msg_id, h.len, h.reactor_id, h.type, h.flags, h.server_fd,
    h.ext_flags, h.time>>

Decode(c) ==
  [fd |-> c[1], msg_id |-> c[2], len |-> c[3], reactor_id |-> c[4],
   type |-> c[5], flags |-> c[6] % 256, server_fd |-> c[7],
   ext_flags |-> c[8], time |-> c[9]]

HeadSize == Len(Encode(ZeroHead))

is_chunked(h) == HasFlag(h.flags, SW_EVENT_DATA_CHUNK)
is_begin(h) == HasFlag(h.flags, SW_EVENT_DATA_BEGIN)
is_end(h) == HasFlag(h.flags, SW_EVENT_DATA_END)

Min(a, b) == IF a < b THEN a ELSE b

Val(cell) == cell[1]
Vals(cells) == [i \in 1..Len(cells) |-> cells[i][1]]

\* the cells one writev puts on the wire: record k of message m
RecordCells(m, k, head, bytes) ==
  LET raw == Encode(head) \o bytes
  IN  [i \in 1..Len(raw) |-> <<raw[i], m, k, i>>]

\* ---------------------------------------------------------------- inputs
Senders == {1, 2}

\* the payload a sender hands over: every byte differs from every other
PayloadOf(s, n) == [i \in 1..n |-> 16 * s + i]

\* what a caller has left in flags: the mark of a task that went through
\* pass, or the flags of the last chunk of a message it received
LeftoverFlags(s, n) ==
  IF (s + n) % 2 = 0
    THEN SW_EVENT_DATA_PTR
    ELSE SW_EVENT_DATA_CHUNK + SW_EVENT_DATA_END + SW_EVENT_DATA_OBJ_PTR

\* the header fields the caller sets; flags, len and msg_id hold leftovers
CallerHead(s, n) ==
  [fd |-> 40 + s, msg_id |-> 0, len |-> n, reactor_id |-> s, type |-> 6 + s,
   flags |-> LeftoverFlags(s, n), server_fd |-> 3, ext_flags |-> 5,
   time |-> 9]

\* SendData: info, data (a null data pointer is data = <<>> with null set)
SendDataSet(s) ==
  {[info |-> CallerHead(s, n), data |-> PayloadOf(s, n), null |-> FALSE] :
     n \in 0..(IF nsend = 1 THEN MaxLen ELSE MaxLenTwo)}
  \cup {[info |-> CallerHead(s, 1), data |-> <<>>, null |-> TRUE]}

BufferSizes == {HeadSize + 1, HeadSize + BigChunk}

\* what the send function answers: all bytes accepted, -1 with an errno
\* that catch_write_pipe_error puts in one of its classes, or fewer bytes
\* than the record holds
SendResults ==
  CASE faults \in {"send", "all"} -> {"ok", "REDUCE_SIZE", "RETRY", "FATAL"}
    [] faults = "short" -> {"ok", "REDUCE_SIZE", "RETRY", "FATAL", "short"}
    [] OTHER -> {"ok"}

\* the return value of the send function for a record of n payload bytes:
\* a short write leaves the last byte out
SendValue(n, res) ==
  CASE res = "ok" -> HeadSize + n
    [] res = "short" -> HeadSize + n - 1
    [] OTHER -> -1

\* the class catch_write_pipe_error finds in errno after a send: a send
\* that did not fail leaves errno as it was, holding any earlier value
ErrnoClasses(res) ==
  IF res = "short" THEN {"REDUCE_SIZE", "RETRY", "FATAL"} ELSE {res}

\* ---------------------------------------------------------------- writer
\* w: the locals of MessageBus::write (info is resp->info), the records it
\* has put on the wire (out) and the history of its send attempts (tries)
Emit(w, head, off, n, res) ==
  LET k == Len(w.out) + 1
      cells == RecordCells(head.msg_id, k, head,
                           SubSeq(w.data, off + 1, off + n))
  IN  [w EXCEPT
         !.out = IF SendValue(n, res) >= 0
                   THEN Append(@, SubSeq(cells, 1, SendValue(n, res)))
                   ELSE @,
         !.recs = IF res = "ok"
                    THEN Append(@, [flags |-> head.flags, len |-> head.len,
                                    msg_id |-> head.msg_id, off |-> off,
                                    n |-> n, max |-> w.max_length,
                                    bytes |-> SubSeq(w.data, off + 1, off + n)])
                    ELSE @,
         !.tries = Append(@, [res |-> res, flags |-> head.flags, off |-> off,
                              n |-> n, max |-> w.max_length, head |-> head,
                              sent |-> SendValue(n, res)])]

Return(w, ok) == [w EXCEPT !.ret = ok, !.done = TRUE]

\* WriteEmpty that leaves the caller's flags in the header
WriteEmpty_KeepFlags(w) ==
  LET inf == [w.info EXCEPT !.len = 0]
      w1 == [w EXCEPT !.info = inf]
  IN  {Return(Emit(w1, inf, 0, 0, res), res = "ok") : res \in SendResults}

\* lines 253-259: the header alone, flags = 0, len = 0
WriteEmpty(w) ==
  LET inf == [w.info EXCEPT !.flags = 0, !.len = 0]
      w1 == [w EXCEPT !.info = inf]
  IN  {Return(Emit(w1, inf, 0, 0, res), res = "ok") : res \in SendResults}

\* lines 282-288: the slice of this iteration and its END flag
ChunkSlice(w) ==
  IF w.l_payload > w.max_length
    THEN [w EXCEPT !.copy_n = w.max_length]
    ELSE [w EXCEPT !.info.flags = SetFlag(@, SW_EVENT_DATA_END),
                   !.copy_n = w.l_payload]

\* ChunkDownshift with END left on the header
ChunkDownshift_KeepEnd(w) ==
  [w EXCEPT !.max_length = SW_IPC_BUFFER_SIZE]

\* ChunkDownshift that takes the refused slice for sent
ChunkDownshift_Skip(w) ==
  [w EXCEPT !.max_length = SW_IPC_BUFFER_SIZE,
            !.info.flags = ClearFlag(@, SW_EVENT_DATA_END),
            !.l_payload = @ - Min(w.copy_n, SW_IPC_BUFFER_SIZE),
            !.offset = @ + Min(w.copy_n, SW_IPC_BUFFER_SIZE)]

\* lines 298-304: the size is lowered and the slice is tried again
ChunkDownshift(w) ==
  [w EXCEPT !.max_length = SW_IPC_BUFFER_SIZE,
            !.info.flags = ClearFlag(@, SW_EVENT_DATA_END)]

\* ChunkAdvance that leaves the offset where it was
ChunkAdvance_SameOffset(w) ==
  [w EXCEPT !.info.flags = ClearFlag(@, SW_EVENT_DATA_BEGIN),
            !.l_payload = @ - w.copy_n]

\* lines 308-313: the record was sent
ChunkAdvance(w) ==
  [w EXCEPT !.info.flags = ClearFlag(@, SW_EVENT_DATA_BEGIN),
            !.l_payload = @ - w.copy_n,
            !.offset = @ + w.copy_n]

\* lines 282-316: the chunked loop, over every answer of the send function
RECURSIVE ChunkLoop(_)
\* ChunkAttempt that tries again after REDUCE_SIZE at the floor as well,
\* a bounded number of times
ChunkAttempt_RetryAgain(w0, res) ==
  LET w == Emit(w0, w0.info, w0.offset, w0.copy_n, res)
  IN  IF SendValue(w0.copy_n, res) < 0
        THEN IF res = "REDUCE_SIZE" /\ Len(w.tries) < 2 * Len(w.data) + 2
               THEN ChunkLoop(ChunkDownshift(w))
               ELSE {Return(w, FALSE)}
        ELSE ChunkLoop(ChunkAdvance(w))

ChunkAttempt(w0, res) ==
  LET w == Emit(w0, w0.info, w0.offset, w0.copy_n, res)
  IN  IF SendValue(w0.copy_n, res) < 0
        THEN IF res = "REDUCE_SIZE" /\ w.max_length > SW_IPC_BUFFER_SIZE
               THEN ChunkLoop(ChunkDownshift(w))
               ELSE {Return(w, FALSE)}
        ELSE ChunkLoop(ChunkAdvance(w))

ChunkLoop(w) ==
  IF w.l_payload > 0
    THEN UNION {ChunkAttempt(ChunkSlice(w), res) : res \in SendResults}
    ELSE {Return(w, TRUE)}

\* WriteChunked that clears the type of the message
WriteChunked_Retype(w) ==
  ChunkLoop([w EXCEPT
               !.info.flags = SetFlag(SW_EVENT_DATA_CHUNK, SW_EVENT_DATA_BEGIN),
               !.info.len = w.l_payload,
               !.info.type = 0])

\* lines 279-280
WriteChunked(w) ==
  ChunkLoop([w EXCEPT
               !.info.flags = SetFlag(SW_EVENT_DATA_CHUNK, SW_EVENT_DATA_BEGIN),
               !.info.len = w.l_payload])

\* WriteSingle that gives up on every refused send
WriteSingle_GiveUp(w0) ==
  LET inf == [w0.info EXCEPT !.flags = 0, !.len = w0.l_payload]
      w1 == [w0 EXCEPT !.info = inf]
  IN  {Return(Emit(w1, inf, 0, w1.l_payload, res), res = "ok") :
         res \in SendResults}

\* lines 261-277: one record when the payload fits
WriteSingle(w0) ==
  LET inf == [w0.info EXCEPT !.flags = 0, !.len = w0.l_payload]
      w1 == [w0 EXCEPT !.info = inf]
      Try(res) ==
        LET w == Emit(w1, inf, 0, w1.l_payload, res)
            Caught(class) ==
              IF class = "REDUCE_SIZE" /\ w.max_length > SW_IPC_BUFFER_SIZE
                THEN WriteChunked([w EXCEPT
                                     !.max_length = SW_IPC_BUFFER_SIZE])
                ELSE {Return(w, FALSE)}
        IN  IF res = "ok"
              THEN {Return(w, TRUE)}
              ELSE UNION {Caught(class) : class \in ErrnoClasses(res)}
  IN  UNION {Try(res) : res \in SendResults}

\* Stamp that leaves the id the caller had in the header
Stamp_Keep(head, id) == head

\* lines 241-243: the id drawn for this call goes into the caller's header
Stamp(head, id) == [head EXCEPT !.msg_id = id]

\* WriteRuns that sends one record whenever the payload fits
WriteRuns_FitFirst(bsize, always, id, resp) ==
  LET w == [info |-> Stamp(resp.info, id),
            data |-> resp.data,
            l_payload |-> resp.info.len,
            offset |-> 0,
            copy_n |-> 0,
            max_length |-> bsize - HeadSize,
            out |-> <<>>, recs |-> <<>>, tries |-> <<>>,
            ret |-> FALSE, done |-> FALSE]
  IN  IF w.l_payload = 0 \/ resp.null
        THEN WriteEmpty(w)
        ELSE IF w.l_payload <= w.max_length
               THEN WriteSingle(w)
               ELSE WriteChunked(w)

\* lines 233-317: every way a call of write can run; id is id_generator_()
WriteRuns(bsize, always, id, resp) ==
  LET w == [info |-> Stamp(resp.info, id),
            data |-> resp.data,
            l_payload |-> resp.info.len,
            offset |-> 0,
            copy_n |-> 0,
            max_length |-> bsize - HeadSize,
            out |-> <<>>, recs |-> <<>>, tries |-> <<>>,
            ret |-> FALSE, done |-> FALSE]
  IN  IF w.l_payload = 0 \/ resp.null
        THEN WriteEmpty(w)
        ELSE IF ~always /\ w.l_payload <= w.max_length
               THEN WriteSingle(w)
               ELSE WriteChunked(w)

\* ------------------------------------------------------- socket facade
\* catch_read_error that takes EINTR for would-block
catch_read_error_Lenient(err) ==
  CASE err \in {"EAGAIN", "EINTR"} -> "SW_WAIT"
    [] OTHER -> "SW_ERROR"

\* errno classes of Socket::catch_read_error
catch_read_error(err) ==
  CASE err = "EAGAIN" -> "SW_WAIT"
    [] err = "EINTR" -> "SW_RETRY"
    [] OTHER -> "SW_ERROR"

\* what recv(MSG_PEEK) can answer on a socket holding avail cells
PeekResults(avail) ==
  IF avail = 0
    THEN IF faults = "all" THEN {"EAGAIN", "EOF", "EINTR", "EIO"}
                           ELSE {"EAGAIN"}
    ELSE IF faults = "all" THEN {"data", "EINTR", "EIO"} ELSE {"data"}

\* what readv / Socket::read can answer
BodyResults ==
  IF faults = "all" THEN {"data", "EAGAIN", "EOF", "EINTR", "EIO"}
                    ELSE {"data"}

\* how many cells a read asking for req cells returns when avail are there
ReadSizes(r, req) ==
  IF r.short > 0 THEN 1..Min(req, Len(r.sock)) ELSE {Min(req, Len(r.sock))}

\* size_t arithmetic: a negative number x stands for 2^64 + x
UMin(a, b) == IF b < 0 THEN a ELSE Min(a, b)

\* n cells copied over the start of the header in memory
Overlay(h, vals) ==
  IF Len(vals) >= HeadSize
    THEN Decode(vals)
    ELSE Decode(vals \o SubSeq(Encode(h), Len(vals) + 1, HeadSize))

\* a value of the inline region no read has written
Stale == -1

\* ---------------------------------------------------------------- reader
\* r: the bus (info, data, pool), the socket, the locals of read and what
\* the invocation has done so far.  data is the inline region of buffer_:
\* bytes, or the pointer prepare_packet stored (id: the pool entry).

\* get_packet_buffer that takes whatever entry the pool holds
get_packet_buffer_AnyEntry(r) ==
  IF DOMAIN r.pool # {}
    THEN [r EXCEPT !.buf = CHOOSE k \in DOMAIN r.pool :
                             \A j \in DOMAIN r.pool : k <= j]
    ELSE IF ~is_begin(r.info)
           THEN [r EXCEPT !.buf = 0]
           ELSE [r EXCEPT
                   !.buf = r.info.msg_id,
                   !.pool = [k \in {r.info.msg_id} |->
                               [str |-> <<>>, length |-> 0,
                                size |-> r.info.len, null |-> FALSE,
                                object |-> TRUE]]]

\* lines 62-77: the pool entry of info.msg_id; null unless found or BEGIN
get_packet_buffer(r) ==
  IF r.info.msg_id \in DOMAIN r.pool
    THEN [r EXCEPT !.buf = IF r.pool[r.info.msg_id].object
                             THEN r.info.msg_id ELSE 0]
    ELSE IF ~is_begin(r.info)
           THEN [r EXCEPT !.buf = 0]
           ELSE [r EXCEPT
                   !.buf = r.info.msg_id,
                   !.pool = [k \in DOMAIN r.pool \cup {r.info.msg_id} |->
                               IF k \in DOMAIN r.pool
                                 THEN r.pool[k]
                                 ELSE [str |-> <<>>, length |-> 0,
                                       size |-> r.info.len, null |-> FALSE,
                                       object |-> TRUE]]]

\* lines 70-71 when make_string has no memory. Either it returns a null
\* pointer, which emplace stores under the id and the caller takes for an
\* unknown message, or it throws and the reader is left without a return
\* value (rc = "bad_alloc", ret cleared) and without an entry
NoMemory(r) ==
  IF faults = "alloc" /\ r.info.msg_id \notin DOMAIN r.pool /\ is_begin(r.info)
    THEN {[r EXCEPT
             !.buf = 0,
             !.errno = "ENOMEM",
             !.pool = [k \in DOMAIN r.pool \cup {r.info.msg_id} |->
                         IF k \in DOMAIN r.pool
                           THEN r.pool[k]
                           ELSE [str |-> <<>>, length |-> 0, size |-> 0,
                                 null |-> TRUE, object |-> FALSE]]],
          [r EXCEPT !.errno = "ENOMEM", !.thrown = TRUE, !.rc = "bad_alloc",
                    !.ret = 0, !.pc = "idle"]}
    ELSE {}

\* lines 62-77 over every answer of the allocator
PacketBuffers(r) == {get_packet_buffer(r)} \cup NoMemory(r)

\* prepare_packet that yields one chunk late
prepare_packet_Late(r0) ==
  LET r == [r0 EXCEPT !.count = (@ + 1) % 65536]
  IN  IF ~is_end(r.info)
        THEN IF r.count > SW_WORKER_MAX_RECV_CHUNK_COUNT
               THEN [r EXCEPT !.rc = "SW_WAIT"]
               ELSE [r EXCEPT !.rc = "SW_CONTINUE"]
        ELSE [r EXCEPT !.info.flags = SetFlag(@, SW_EVENT_DATA_OBJ_PTR),
                       !.data = [kind |-> "obj", bytes |-> <<>>, id |-> r.buf],
                       !.rc = "SW_READY"]

\* prepare_packet that marks the buffer with both pointer flags
prepare_packet_BothMarks(r0) ==
  LET r == [r0 EXCEPT !.count = (@ + 1) % 65536]
  IN  IF ~is_end(r.info)
        THEN IF r.count >= SW_WORKER_MAX_RECV_CHUNK_COUNT
               THEN [r EXCEPT !.rc = "SW_WAIT"]
               ELSE [r EXCEPT !.rc = "SW_CONTINUE"]
        ELSE [r EXCEPT !.info.flags = SetFlag(SetFlag(@, SW_EVENT_DATA_OBJ_PTR),
                                              SW_EVENT_DATA_PTR),
                       !.data = [kind |-> "obj", bytes |-> <<>>, id |-> r.buf],
                       !.rc = "SW_READY"]

\* lines 79-109
prepare_packet(r0) ==
  LET r == [r0 EXCEPT !.count = (@ + 1) % 65536]
  IN  IF ~is_end(r.info)
        THEN IF r.count >= SW_WORKER_MAX_RECV_CHUNK_COUNT
               THEN [r EXCEPT !.rc = "SW_WAIT"]
               ELSE [r EXCEPT !.rc = "SW_CONTINUE"]
        ELSE [r EXCEPT !.info.flags = SetFlag(@, SW_EVENT_DATA_OBJ_PTR),
                       !.data = [kind |-> "obj", bytes |-> <<>>, id |-> r.buf],
                       !.rc = "SW_READY"]

Return_(r, v, why) == [r EXCEPT !.ret = v, !.rc = why, !.pc = "idle"]

\* the socket call failed with errno err
Failed(r, err) == [r EXCEPT !.errno = err]

\* lines 170-180 and 220-230: what the reader does with prepare_packet's code
Dispatch(r0, recv_n) ==
  LET r == prepare_packet(r0)
  IN  CASE r.rc = "SW_READY" -> [r EXCEPT !.ret = recv_n, !.pc = "idle"]
        [] r.rc = "SW_CONTINUE" -> [r EXCEPT !.pc = "loop"]
        [] r.rc = "SW_WAIT" -> [r EXCEPT !.ret = SW_OK, !.pc = "idle"]

\* n cells leave the stream
\* req were asked for
Take(r, n, req) ==
  [r EXCEPT !.sock = SubSeq(@, n + 1, Len(@)),
            !.short = IF n < Min(req, Len(r.sock)) THEN @ - 1 ELSE @]

\* StoreAt that starts the entry over with every chunk
StoreAt_Restart(e, bytes, add) ==
  [e EXCEPT !.str = bytes, !.length = add]

\* the bytes a read stores at str + length of the pool entry
StoreAt(e, bytes, add) ==
  [e EXCEPT !.str = SubSeq(@, 1, Min(e.length, Len(@))) \o bytes,
            !.length = @ + add]

\* StreamPlain that clears the pool when it delivers a record
StreamPlain_ClearPool(r) ==
  {Return_([Take(r, Min(HeadSize + r.info.len, Len(r.sock)),
                 HeadSize + r.info.len)
              EXCEPT !.pool = <<>>, !.recs = @ + 1],
           Min(HeadSize + r.info.len, Len(r.sock)), "read")}

\* lines 134-136: Socket::read of the whole record into buffer_
StreamPlain(r) ==
  LET req == HeadSize + r.info.len
      Got(n) ==
        LET cells == Vals(SubSeq(r.sock, 1, n))
            r1 == Take(r, n, req)
        IN  Return_([r1 EXCEPT
                       !.info = Overlay(r.info, SubSeq(cells, 1, Min(n, HeadSize))),
                       !.data = [kind |-> "bytes",
                                 bytes |-> SubSeq(cells, HeadSize + 1, n),
                                 id |-> 0],
                       !.ub = @ \/ n > r.bsize,
                       !.recs = @ + 1],
                    n, "read")
  IN  UNION {IF res = "data"
               THEN {Got(n) : n \in ReadSizes(r, req)}
               ELSE IF res = "EOF"
                      THEN {Return_(r, 0, "read")}
                      ELSE {Return_(Failed(r, res), SW_ERR, "read")}
             : res \in BodyResults}

\* lines 139-149: the header is read and dropped
StreamDiscard(r) ==
  {Return_([Take(r, n, HeadSize) EXCEPT
              !.info = Overlay(r.info, Vals(SubSeq(r.sock, 1, n)))],
           SW_OK, "discard") : n \in ReadSizes(r, HeadSize)}

\* lines 151-168, 170-180: readv of header and slice, then prepare_packet
StreamChunk(r) ==
  LET e == r.pool[r.buf]
      remain_len == r.info.len - e.length
      iov1 == UMin(r.bsize - HeadSize, remain_len)
      Got(n) ==
        LET cells == Vals(SubSeq(r.sock, 1, n))
            bytes == SubSeq(cells, HeadSize + 1, n)
            r1 == Take(r, n, HeadSize + iov1)
        IN  {Dispatch(x, n) :
               x \in {[r1 EXCEPT
                         !.info = Overlay(r.info, SubSeq(cells, 1, Min(n, HeadSize))),
                         !.pool[r.buf] = StoreAt(e, bytes, n - HeadSize),
                         !.ub = @ \/ e.null \/ e.length < 0
                                  \/ e.length + Len(bytes) > e.size,
                         !.recs = @ + 1]}}
  IN  UNION {CASE res = "data" ->
                    UNION {Got(n) : n \in ReadSizes(r, HeadSize + iov1)}
               [] res = "EOF" -> {Return_(r, SW_ERR, "readv")}
               [] res = "EAGAIN" -> {Return_(Failed(r, res), SW_OK, "readv")}
               [] OTHER -> {Dispatch(Failed(r, res), -1)} : res \in BodyResults}

\* lines 122-181: one pass from _read_from_pipe to a return or the goto
StreamPass(r) ==
  LET Chunked(r1) ==
        UNION {CASE r2.thrown -> {r2}
                 [] r2.buf = 0 -> StreamDiscard(r2)
                 [] OTHER -> StreamChunk(r2) :
                 r2 \in PacketBuffers(r1)}
      Peeked(n) ==
        UNION {IF ~is_chunked(r1.info) THEN StreamPlain(r1) ELSE Chunked(r1) :
                 r1 \in {[r EXCEPT
                            !.info = Overlay(r.info, Vals(SubSeq(r.sock, 1, n))),
                            !.short = IF n < Min(HeadSize, Len(r.sock))
                                        THEN @ - 1 ELSE @]}}
  IN  UNION {CASE res = "data" ->
                    UNION {Peeked(n) : n \in ReadSizes(r, HeadSize)}
               [] res = "EOF" -> {Return_(r, SW_ERR, "peek")}
               [] OTHER ->
                    {Return_(Failed(r, res),
                             IF catch_read_error(res) = "SW_WAIT"
                               THEN SW_OK ELSE SW_ERR, "peek")}
             : res \in PeekResults(Len(r.sock))}

\* lines 186-231: one pass of read_with_buffer; the socket holds datagrams
DgramPass(r) ==
  LET Got ==
        LET dg == Head(r.sock)
            n == Min(Len(dg), r.bsize)
            cells == Vals(SubSeq(dg, 1, n))
            bytes == SubSeq(cells, HeadSize + 1, n)
            r1 == [r EXCEPT
                     !.sock = Tail(@),
                     !.info = Overlay(r.info, SubSeq(cells, 1, Min(n, HeadSize))),
                     !.data = [kind |-> "bytes", bytes |-> bytes, id |-> 0],
                     !.count = (@ + 1) % 65536,
                     !.recs = @ + 1]
            Chunk(r2) ==
              LET e == r2.pool[r2.buf]
              IN  CASE r2.thrown -> {r2}
                    [] r2.buf = 0 -> {Return_(r2, SW_ERR, "discard")}
                    [] OTHER ->
                         {Dispatch(x, n) :
                            x \in {[r2 EXCEPT
                                      !.pool[r2.buf] = StoreAt(e, bytes, n - HeadSize),
                                      !.ub = @ \/ e.null \/ e.length < 0
                                               \/ n < HeadSize]}}
        IN  UNION {IF ~is_chunked(x1.info)
                     THEN {Return_(x1, n, "read")}
                     ELSE UNION {Chunk(r2) : r2 \in PacketBuffers(x1)} :
                   x1 \in {r1}}
  IN  UNION {CASE res = "data" -> Got
               [] res = "EOF" -> {Return_(r, SW_ERR, "read")}
               [] OTHER ->
                    {Return_(Failed(r, res),
                             IF catch_read_error(res) = "SW_WAIT"
                               THEN SW_OK ELSE SW_ERR, "read")}
             : res \in PeekResults(Len(r.sock))}

\* lines 116-181: a whole invocation of read, pass after pass
RECURSIVE ReadRun(_)
ReadRun(r) ==
  UNION {IF x.pc = "idle" THEN {x} ELSE ReadRun(x) : x \in StreamPass(r)}

\* lines 186-231: a whole invocation of read_with_buffer
RECURSIVE ReadWithBufferRun(_)
ReadWithBufferRun(r) ==
  UNION {IF x.pc = "idle" THEN {x} ELSE ReadWithBufferRun(x) :
           x \in DgramPass(r)}

\* get_packet that looks at DATA_OBJ_PTR before DATA_PTR
get_packet_ObjFirst(h, d, pl) ==
  IF HasFlag(h.flags, SW_EVENT_DATA_OBJ_PTR)
    THEN IF d.kind = "obj" /\ d.id \in DOMAIN pl
           THEN [length |-> pl[d.id].length, data |-> pl[d.id].str,
                 null |-> pl[d.id].null, wild |-> FALSE]
           ELSE [length |-> 0, data |-> <<>>, null |-> FALSE, wild |-> TRUE]
    ELSE IF HasFlag(h.flags, SW_EVENT_DATA_PTR)
           THEN IF d.kind = "pkt"
                  THEN [length |-> d.id, data |-> d.bytes, null |-> FALSE,
                        wild |-> FALSE]
                  ELSE [length |-> 0, data |-> <<>>, null |-> FALSE, wild |-> TRUE]
           ELSE [length |-> h.len,
                 data |-> [i \in 1..h.len |->
                             IF d.kind = "bytes" /\ i <= Len(d.bytes)
                               THEN d.bytes[i] ELSE Stale],
                 null |-> FALSE, wild |-> FALSE]

\* lines 11-26: the view of the payload; wild when the inline bytes are read
\* as a pointer that nothing stored there
get_packet(h, d, pl) ==
  IF HasFlag(h.flags, SW_EVENT_DATA_PTR)
    THEN IF d.kind = "pkt"
           THEN [length |-> d.id, data |-> d.bytes, null |-> FALSE, wild |-> FALSE]
           ELSE [length |-> 0, data |-> <<>>, null |-> FALSE, wild |-> TRUE]
    ELSE IF HasFlag(h.flags, SW_EVENT_DATA_OBJ_PTR)
           THEN IF d.kind = "obj" /\ d.id \in DOMAIN pl
                  THEN [length |-> pl[d.id].length, data |-> pl[d.id].str,
                        null |-> pl[d.id].null, wild |-> FALSE]
                  ELSE [length |-> 0, data |-> <<>>, null |-> FALSE, wild |-> TRUE]
           ELSE [length |-> h.len,
                 data |-> [i \in 1..h.len |->
                             IF d.kind = "bytes" /\ i <= Len(d.bytes)
                               THEN d.bytes[i] ELSE Stale],
                 null |-> FALSE, wild |-> FALSE]

config == <<mode, buffer_size, always_chunked, faults, nsend>>
sender == <<next_id, wire, writes>>
bus == <<info, data, pool, pc, recv_chunk_count, ret, rc, errno, recs>>

EmptyData == [kind |-> "bytes", bytes |-> <<>>, id |-> 0]
NoMove == [called |-> FALSE, null |-> FALSE, val |-> <<>>]

\* lines 28-37: the bus after construction
InitBus ==
  /\ info = ZeroHead
  /\ data = EmptyData
  /\ pool = <<>>
  /\ pc = "idle"
  /\ recv_chunk_count = 0
  /\ ret = 0
  /\ rc = "none"
  /\ errno = "none"
  /\ recs = 0
  /\ delivered = <<>>
  /\ moved = NoMove
  /\ restarts = 0
  /\ ub = FALSE

InitCommon ==
  /\ mode \in {"stream", "dgram"}
  /\ buffer_size \in BufferSizes
  /\ always_chunked \in BOOLEAN
  /\ next_id = 1
  /\ wire = [s \in Senders |-> <<>>]
  /\ writes = <<>>
  /\ sock = <<>>
  /\ InitBus

Init == InitCommon /\ shorts = 0 /\ faults = "all" /\ nsend = 1

InitTwo == InitCommon /\ shorts = 0 /\ faults = "none" /\ nsend = 2

InitShort == InitCommon /\ shorts = MaxShort /\ faults = "none" /\ nsend = 1

\* sends may be refused, reads return what the socket holds
InitSend == InitCommon /\ shorts = 0 /\ faults = "send" /\ nsend = 1

\* the allocator of the reassembly buffers may have no memory
InitAlloc == InitCommon /\ shorts = 0 /\ faults = "alloc" /\ nsend = 1

\* one caller, no call fails
InitOne == InitCommon /\ shorts = 0 /\ faults = "none" /\ nsend = 1

\* sends may be refused or accepted in part; two callers write
InitWrite == InitCommon /\ shorts = 0 /\ faults = "short" /\ nsend = 2

\* lines 233-317: sender s calls write
Write(s) ==
  /\ ~ub
  /\ next_id <= nsend
  /\ s = next_id
  /\ \E resp \in SendDataSet(s) :
       \E w \in WriteRuns(buffer_size, always_chunked, next_id, resp) :
         /\ wire' = [wire EXCEPT ![s] = @ \o w.out]
         /\ writes' = Append(writes,
                             [msg_id |-> next_id, data |-> resp.data,
                              head |-> resp.info, info |-> w.info,
                              ret |-> w.ret, recs |-> w.recs,
                              tries |-> w.tries])
  /\ next_id' = next_id + 1
  /\ UNCHANGED <<config, shorts, sock, bus, delivered, moved, restarts, ub>>

\* the kernel hands the oldest record of sender s to the receiving socket
Arrive(s) ==
  /\ ~ub
  /\ wire[s] # <<>>
  /\ wire' = [wire EXCEPT ![s] = Tail(@)]
  /\ sock' = IF mode = "stream" THEN sock \o Head(wire[s])
                                ELSE Append(sock, Head(wire[s]))
  /\ UNCHANGED <<config, shorts, next_id, writes, bus, delivered, moved, restarts, ub>>

\* the reader's state as one pass finds it: a new invocation starts at 0
Reader ==
  [info |-> info, data |-> data, pool |-> pool, sock |-> sock,
   bsize |-> buffer_size, buf |-> 0, thrown |-> FALSE,
   count |-> IF pc = "idle" THEN 0 ELSE recv_chunk_count,
   recs |-> IF pc = "idle" THEN 0 ELSE recs,
   short |-> shorts, ret |-> ret, rc |-> rc, errno |-> "none", pc |-> pc,
   ub |-> FALSE]

Land(r) ==
  /\ info' = r.info
  /\ data' = r.data
  /\ pool' = r.pool
  /\ sock' = r.sock
  /\ pc' = r.pc
  /\ recv_chunk_count' = r.count
  /\ ret' = r.ret
  /\ rc' = r.rc
  /\ errno' = r.errno
  /\ recs' = r.recs
  /\ ub' = r.ub
  /\ shorts' = r.short
  /\ delivered' = IF r.pc = "idle" /\ r.ret > 0
                    THEN Append(delivered,
                                [head |-> r.info,
                                 pkt |-> get_packet(r.info, r.data, r.pool),
                                 partial |-> {k \in DOMAIN r.pool :
                                                r.pool[k].length < r.pool[k].size}])
                    ELSE delivered
  /\ moved' = NoMove

\* lines 116-181: one pass of read, from _read_from_pipe
Read ==
  /\ ~ub
  /\ mode = "stream"
  /\ \E r0 \in {Reader} : \E r \in StreamPass(r0) : Land(r)
  /\ UNCHANGED <<config, sender, restarts>>

\* lines 186-231: one pass of read_with_buffer
ReadWithBuffer ==
  /\ ~ub
  /\ mode = "dgram"
  /\ \E r0 \in {Reader} : \E r \in DgramPass(r0) : Land(r)
  /\ UNCHANGED <<config, sender, restarts>>

\* move_packet that erases the entry it has emptied
move_packet_Erase(pl, msg_id) ==
  IF msg_id \in DOMAIN pl
    THEN [pool |-> [k \in DOMAIN pl \ {msg_id} |-> pl[k]],
          val |-> [called |-> TRUE, null |-> pl[msg_id].null,
                   val |-> pl[msg_id].str]]
    ELSE [pool |-> pl, val |-> [called |-> TRUE, null |-> TRUE, val |-> <<>>]]

\* move_packet that hands the storage out and keeps it in the entry
move_packet_Keep(pl, msg_id) ==
  IF msg_id \in DOMAIN pl
    THEN [pool |-> pl,
          val |-> [called |-> TRUE, null |-> pl[msg_id].null,
                   val |-> pl[msg_id].str]]
    ELSE [pool |-> pl, val |-> [called |-> TRUE, null |-> TRUE, val |-> <<>>]]

\* lines 49-60: the caller takes the storage of the delivered message
move_packet(pl, msg_id) ==
  IF msg_id \in DOMAIN pl
    THEN [pool |-> [pl EXCEPT ![msg_id].str = <<>>, ![msg_id].null = TRUE],
          val |-> [called |-> TRUE, null |-> pl[msg_id].null,
                   val |-> pl[msg_id].str]]
    ELSE [pool |-> pl, val |-> [called |-> TRUE, null |-> TRUE, val |-> <<>>]]

MovePacket ==
  /\ ~ub
  /\ pc = "idle"
  /\ ret > 0
  /\ LET m == move_packet(pool, info.msg_id)
     IN  /\ pool' = m.pool
         /\ moved' = m.val
  /\ UNCHANGED <<config, shorts, sender, sock, info, data, pc, recv_chunk_count, ret,
                 rc, errno, recs, delivered, restarts, ub>>

\* sizeof(PacketPtr), in cells: length and data
PacketPtrSize == 2

\* the flags in the header of a task: none, or one of the two marks
TaskFlags == {0, SW_EVENT_DATA_PTR, SW_EVENT_DATA_OBJ_PTR}

\* the tasks handed to pass: empty or one byte long
TaskSet(s) ==
  {[info |-> [CallerHead(s, n) EXCEPT !.flags = f], data |-> PayloadOf(s, n)] :
     n \in 0..1, f \in TaskFlags}

\* lines 39-47: a task of the same process is put in the chunk buffer
Pass(s) ==
  /\ ~ub
  /\ pc = "idle"
  /\ s <= nsend
  /\ \E task \in TaskSet(s) :
       IF task.info.len > 0
         THEN /\ info' = [task.info EXCEPT !.flags = SW_EVENT_DATA_PTR,
                                           !.len = PacketPtrSize]
              /\ data' = [kind |-> "pkt", bytes |-> task.data,
                          id |-> task.info.len]
              /\ ub' = (PacketPtrSize > buffer_size - HeadSize)
         ELSE /\ info' = task.info
              /\ UNCHANGED <<data, ub>>
  /\ UNCHANGED <<config, shorts, sender, sock, pool, pc, recv_chunk_count, ret,
                 rc, errno, recs, delivered, moved, restarts>>

\* lines 340-347 and 28-37: the worker goes down and a new bus is built on
\* the same pipe; what the old bus held is gone, the socket keeps its data
Restart ==
  /\ ~ub
  /\ restarts < MaxRestarts
  /\ pc = "idle"
  /\ restarts' = restarts + 1
  /\ info' = ZeroHead
  /\ data' = EmptyData
  /\ pool' = <<>>
  /\ recv_chunk_count' = 0
  /\ ret' = 0
  /\ rc' = "none"
  /\ errno' = "none"
  /\ recs' = 0
  /\ moved' = NoMove
  /\ UNCHANGED <<config, shorts, sender, sock, pc, delivered, ub>>

Next ==
  \/ \E s \in Senders : Write(s)
  \/ \E s \in Senders : Arrive(s)
  \/ Read
  \/ ReadWithBuffer
  \/ MovePacket

Spec == Init /\ [][Next]_vars

SpecTwo == InitTwo /\ [][Next]_vars

SpecShort == InitShort /\ [][Next]_vars

\* the reactor calls the reader again while the socket is readable, and the
\* kernel delivers what was written
Fairness ==
  /\ WF_vars(Read)
  /\ WF_vars(ReadWithBuffer)
  /\ \A s \in Senders : WF_vars(Arrive(s))

SpecFair == InitSend /\ [][Next]_vars /\ Fairness

NextRestart == Next \/ Restart

NextPass == Next \/ \E s \in Senders : Pass(s)

SpecPass == Init /\ [][NextPass]_vars

SpecTask == InitOne /\ [][NextPass]_vars

SpecAlloc == InitAlloc /\ [][Next]_vars

SpecSend == InitSend /\ [][Next]_vars

SpecRestart == InitTwo /\ [][NextRestart]_vars

\* the writer alone: what is on the socket is never read
NextWrite == \E s \in Senders : Write(s)

SpecWrite == InitWrite /\ [][NextWrite]_vars

\* ------------------------------------------------------------ properties
\* the record a cell of the socket was sent in begins at this cell
AtRecordStart(cell) == cell[4] = 1

\* the stream begins at the header of a record, or is empty
Aligned(stream) == stream = <<>> \/ AtRecordStart(stream[1])

\* the caller-set header fields of delivery d are those of write w
SameCallerFields(d, w) ==
  /\ d.head.type = w.head.type
  /\ d.head.fd = w.head.fd
  /\ d.head.reactor_id = w.head.reactor_id

\* delivery d hands out exactly the payload of write w
Intact(d, w) ==
  /\ ~d.pkt.wild
  /\ ~d.pkt.null
  /\ d.pkt.length = Len(w.data)
  /\ d.pkt.data = w.data
  /\ d.head.len = Len(w.data)
  /\ d.head.msg_id = w.msg_id
  /\ SameCallerFields(d, w)

\* C1: a payload of length >= 1 that write accepted (returned true) is what
\* the first READY of the receiver delivers: same bytes, same length,
\* info.len = |P|, same type, fd and reactor_id.
C1_RoundTrip ==
  (/\ Len(writes) = 1
   /\ writes[1].ret
   /\ Len(writes[1].data) >= 1
   /\ mode = "stream"
   /\ Len(delivered) >= 1)
  => Intact(delivered[1], writes[1])

\* C2: with the records of two messages interleaved on one receiving bus,
\* every reassembly buffer holds bytes of its own message only, in order,
\* and every READY delivers the payload of the message whose id it carries.
C2_Interleaved ==
  /\ \A k \in DOMAIN pool :
       /\ k \in DOMAIN writes
       /\ ~pool[k].null =>
            pool[k].str = SubSeq(writes[k].data, 1, pool[k].length)
  /\ \A i \in DOMAIN delivered :
       LET d == delivered[i]
       IN  /\ d.head.msg_id \in DOMAIN writes
           /\ Intact(d, writes[d.head.msg_id])

\* both messages were delivered, the first while the other was half built
C2_Witness ==
  /\ Len(delivered) = 2
  /\ delivered[1].partial # {}
  /\ \A i \in 1..2 : /\ is_chunked(delivered[i].head)
                     /\ delivered[i].pkt.length = MaxLenTwo
  /\ delivered[1].head.msg_id = 2

\* the header at the front of a stream that is at the start of a record
FrontHead(stream) == Decode(Vals(SubSeq(stream, 1, HeadSize)))

\* C3: one invocation of the reader (read or read_with_buffer) takes at
\* most SW_WORKER_MAX_RECV_CHUNK_COUNT chunks from the socket; it goes on
\* to another chunk only below that number, and read (stream mode) returns
\* the WAIT outcome after exactly that many chunks.
C3_FairShare ==
  /\ recs <= SW_WORKER_MAX_RECV_CHUNK_COUNT
  /\ pc = "loop" => recs < SW_WORKER_MAX_RECV_CHUNK_COUNT
  /\ (mode = "stream" /\ pc = "idle" /\ rc = "SW_WAIT")
       => (ret = SW_OK /\ recs = SW_WORKER_MAX_RECV_CHUNK_COUNT)

\* read has yielded with WAIT and a further non-END chunk is still queued
C3_Witness ==
  /\ mode = "stream"
  /\ pc = "idle"
  /\ rc = "SW_WAIT"
  /\ recs = SW_WORKER_MAX_RECV_CHUNK_COUNT
  /\ Len(sock) > HeadSize
  /\ Aligned(sock)
  /\ is_chunked(FrontHead(sock))
  /\ ~is_end(FrontHead(sock))

\* the records of write w form a chunked series of a successful call
ChunkedSeries(w) ==
  /\ w.ret
  /\ \E k \in DOMAIN w.recs : HasFlag(w.recs[k].flags, SW_EVENT_DATA_CHUNK)

\* BEGIN on the first record only, END on the last only
BeginEndPlaced(w) ==
  \A k \in DOMAIN w.recs :
    /\ HasFlag(w.recs[k].flags, SW_EVENT_DATA_BEGIN) <=> k = 1
    /\ HasFlag(w.recs[k].flags, SW_EVENT_DATA_END) <=> k = Len(w.recs)

\* C4: in the chunked series of a successful write every record carries
\* CHUNK, the same msg_id and the total length; BEGIN is on the first record
\* sent and on no later one, END on the last and on no earlier one, also
\* when a send attempt failed and was tried again.
C4_SeriesFlags ==
  \A i \in DOMAIN writes :
    LET w == writes[i]
    IN  ChunkedSeries(w) =>
          /\ \A k \in DOMAIN w.recs :
               /\ HasFlag(w.recs[k].flags, SW_EVENT_DATA_CHUNK)
               /\ w.recs[k].msg_id = w.msg_id
               /\ w.recs[k].len = Len(w.data)
          /\ BeginEndPlaced(w)

\* a successful series of three records or more, one attempt of it refused
C4_Witness ==
  \E i \in DOMAIN writes :
    /\ ChunkedSeries(writes[i])
    /\ Len(writes[i].recs) >= 3
    /\ \E j \in DOMAIN writes[i].tries :
         /\ writes[i].tries[j].res = "REDUCE_SIZE"
         /\ HasFlag(writes[i].tries[j].flags, SW_EVENT_DATA_END)

\* attempt j of write w is a send of the chunked loop refused with
\* REDUCE_SIZE while the chunk size was above the floor
Downshifted(w, j) ==
  /\ w.tries[j].res = "REDUCE_SIZE"
  /\ w.tries[j].max > SW_IPC_BUFFER_SIZE
  /\ HasFlag(w.tries[j].flags, SW_EVENT_DATA_CHUNK)

CeilDiv(a, b) == (a + b - 1) \div b

\* the slices of the records sent tile the payload from 0, in order
Contiguous(w) ==
  /\ w.recs[1].off = 0
  /\ \A k \in 1..(Len(w.recs) - 1) :
       w.recs[k + 1].off = w.recs[k].off + w.recs[k].n
  /\ w.recs[Len(w.recs)].off + w.recs[Len(w.recs)].n = Len(w.data)

\* C5: after a REDUCE_SIZE failure in the chunked loop above the floor,
\* write sends the same slice again (same offset) at the floor size, END
\* being set only if what remains fits; a transfer that then succeeds takes
\* ceil(remaining / floor) further records, skips and repeats no byte, and
\* has BEGIN on its first record only and END on its last only.
C5_Downshift ==
  \A i \in DOMAIN writes :
    LET w == writes[i]
    IN  \A j \in DOMAIN w.tries :
          Downshifted(w, j) =>
            LET remaining == Len(w.data) - w.tries[j].off
            IN  /\ j < Len(w.tries)
                /\ w.tries[j + 1].off = w.tries[j].off
                /\ w.tries[j + 1].max = SW_IPC_BUFFER_SIZE
                /\ w.tries[j + 1].n = Min(remaining, SW_IPC_BUFFER_SIZE)
                /\ HasFlag(w.tries[j + 1].flags, SW_EVENT_DATA_END)
                     <=> remaining <= SW_IPC_BUFFER_SIZE
                /\ w.ret =>
                     /\ Len(w.tries) - j = CeilDiv(remaining, SW_IPC_BUFFER_SIZE)
                     /\ Contiguous(w)
                     /\ BeginEndPlaced(w)

\* a transfer that was downshifted after its first record and then succeeded
C5_Witness ==
  \E i \in DOMAIN writes :
    /\ writes[i].ret
    /\ Len(writes[i].tries) >= 4
    /\ Downshifted(writes[i], 2)

\* C6: write with len = 0 sends one record, the header alone with flags = 0
\* and len = 0, and succeeds iff the send accepted it; the read that takes
\* the record returns READY with get_packet().length = 0 and the sender's
\* header fields, and the reassembly pool gets no entry.
C6_ZeroLength ==
  \A i \in DOMAIN writes :
    LET w == writes[i]
    IN  w.head.len = 0 =>
          /\ Len(w.tries) = 1
          /\ w.tries[1].n = 0
          /\ w.tries[1].flags = 0
          /\ w.info.len = 0
          /\ w.ret <=> w.tries[1].res = "ok"
          /\ w.ret <=> Len(w.recs) = 1
          /\ pool = <<>>
          /\ Len(delivered) <= 1
          /\ \A k \in DOMAIN delivered :
               /\ w.ret
               /\ delivered[k].pkt.length = 0
               /\ ~delivered[k].pkt.wild
               /\ delivered[k].head = [w.head EXCEPT !.msg_id = w.msg_id,
                                                     !.flags = 0]
          /\ (w.ret /\ wire[w.msg_id] = <<>> /\ sock = <<>>)
               => Len(delivered) = 1

\* the empty message was written, read and delivered
C6_Witness ==
  /\ Len(writes) = 1
  /\ writes[1].head.len = 0
  /\ Len(delivered) = 1
  /\ ret = HeadSize

\* a pass of read has taken cells from a stream that stood at a record start
\* and has returned through the orphan branch (lines 139-149)
OrphanDropped ==
  /\ mode = "stream"
  /\ Aligned(sock)
  /\ Len(sock') < Len(sock)
  /\ rc' = "discard"

\* C7: when read meets a CHUNK header without BEGIN for a msg_id the pool
\* does not know, what it takes from the socket leaves the stream at the
\* header of a later record, and the pool has no entry for that msg_id.
C7_Resync ==
  [][OrphanDropped => (Aligned(sock') /\ info'.msg_id \notin DOMAIN pool')]_vars

C9_Transient ==
  (/\ pc = "idle"
   /\ errno \in {"EAGAIN", "EINTR"}
   /\ mode = "dgram" \/ rc # "read")
  => ret # SW_ERR

\* C10: when the reader returns READY for a chunked message, the reassembly
\* buffer of that message holds exactly info.len bytes, short reads included.
C10_Complete ==
  (pc = "idle" /\ rc = "SW_READY" /\ ret > 0 /\ data.kind = "obj")
  => pool[data.id].length = info.len

\* write i returned true for a payload of one byte or more
Accepted(i) ==
  /\ i \in DOMAIN writes
  /\ writes[i].ret
  /\ Len(writes[i].data) >= 1

\* some READY has handed out the payload of write i, whole and unaltered
DeliveredIntact(i) ==
  /\ i \in DOMAIN writes
  /\ \E k \in DOMAIN delivered : Intact(delivered[k], writes[i])

\* C11: when write has accepted a message and the caller keeps invoking the
\* reader, after finitely many invocations a READY delivers the complete
\* payload of that message (what earlier invocations consumed is neither
\* lost nor read again).
C11_Progress ==
  \A i \in Senders : [](Accepted(i) => <>DeliveredIntact(i))

\* attempt j of write w is a failure the claim lets write report
FatalTry(w, j) ==
  \/ w.tries[j].res \notin {"ok", "REDUCE_SIZE"}
  \/ /\ w.tries[j].res = "REDUCE_SIZE"
     /\ w.tries[j].max <= SW_IPC_BUFFER_SIZE

\* write w took the header-only path (lines 253-259)
HeaderOnly(w) == w.tries[1].n = 0

\* C12 as claimed: write returns false exactly when a send failed with a
\* class other than REDUCE_SIZE, or with REDUCE_SIZE at the floor.
C12_FailureCases ==
  \A i \in DOMAIN writes :
    ~writes[i].ret <=> \E j \in DOMAIN writes[i].tries : FatalTry(writes[i], j)

\* C12 as amended: on the single-record and the chunked path write returns
\* false exactly when a send failed with a class other than REDUCE_SIZE or
\* with REDUCE_SIZE at the floor, and a REDUCE_SIZE failure above the floor
\* is followed by a chunked attempt at the floor size; on the header-only
\* path (len = 0 or no data) write returns false on every failed send,
\* REDUCE_SIZE above the floor included.
C12_FailurePaths ==
  \A i \in DOMAIN writes :
    LET w == writes[i]
    IN  /\ HeaderOnly(w) => (~w.ret <=> w.tries[1].res # "ok")
        /\ ~HeaderOnly(w) =>
              /\ ~w.ret <=> \E j \in DOMAIN w.tries : FatalTry(w, j)
              /\ \A j \in DOMAIN w.tries :
                   (w.tries[j].res = "REDUCE_SIZE"
                      /\ w.tries[j].max > SW_IPC_BUFFER_SIZE)
                   => /\ j < Len(w.tries)
                      /\ w.tries[j + 1].max = SW_IPC_BUFFER_SIZE
                      /\ w.tries[j + 1].off = w.tries[j].off
                      /\ HasFlag(w.tries[j + 1].flags, SW_EVENT_DATA_CHUNK)

\* a single-record send was refused with REDUCE_SIZE above the floor and the
\* write went on in chunks and returned true
C12_Witness ==
  \E i \in DOMAIN writes :
    /\ writes[i].ret
    /\ writes[i].tries[1].res = "REDUCE_SIZE"
    /\ writes[i].tries[1].flags = 0
    /\ writes[i].tries[1].n >= 2
    /\ writes[i].tries[1].max > SW_IPC_BUFFER_SIZE

\* a reader pass has taken a record from the socket and returned through
\* the branch for a chunk whose msg_id the pool does not know
AnomalyMet ==
  /\ Len(sock') < Len(sock)
  /\ rc' = "discard"

\* C13: a CHUNK record without BEGIN for a msg_id unknown to the pool makes
\* read (stream) and read_with_buffer (datagram) return 0, the quiet OK,
\* and leaves the reassembly pool as it was.
C13_Anomaly ==
  [][AnomalyMet => (ret' = SW_OK /\ pool' = pool)]_vars

\* the cells of a queue of datagrams, one after the other as on a stream
RECURSIVE Flatten(_)
Flatten(q) == IF q = <<>> THEN <<>> ELSE Head(q) \o Flatten(Tail(q))

\* what the caller sees of an invocation that ended in x
Outcome(x) ==
  [ret |-> x.ret, chunks |-> x.recs, pool |-> x.pool,
   pkt |-> IF x.ret > 0 THEN get_packet(x.info, x.data, x.pool)
                        ELSE [length |-> 0, data |-> <<>>, null |-> TRUE,
                              wild |-> FALSE]]

\* C14: on the same queue of records, one per datagram, an invocation of
\* read_with_buffer ends as an invocation of read does on the stream of the
\* same records: same return value, same number of records consumed, same
\* pool, same packet.
C14_SameOutcome ==
  (mode = "dgram" /\ pc = "idle" /\ sock # <<>>)
  => {Outcome(x) : x \in ReadWithBufferRun(Reader)}
       = {Outcome(x) : x \in ReadRun([Reader EXCEPT !.sock = Flatten(sock)])}

\* C15: once move_packet() has been called for a delivered chunked message,
\* a further move_packet() for the same msg_id returns null and get_packet()
\* reports no data pointer together with a non-zero length.
C15_MovedOnce ==
  (moved.called /\ is_chunked(info) /\ info.msg_id \in DOMAIN pool)
  => LET again == move_packet(pool, info.msg_id).val
         pkt == get_packet(info, data, pool)
     IN  /\ again.null
         /\ again.val = <<>>
         /\ pkt.data = <<>>
         /\ pkt.null \/ pkt.length = 0

\* move_packet() was called a second time for a delivered chunked message
\* whose storage the first call had handed out
C15_Witness ==
  /\ moved.called
  /\ moved.null
  /\ is_chunked(info)
  /\ info.msg_id \in DOMAIN pool
  /\ pool[info.msg_id].null
  /\ pool[info.msg_id].length >= 2
  /\ delivered # <<>>
  /\ delivered[Len(delivered)].head.msg_id = info.msg_id
  /\ delivered[Len(delivered)].pkt.length = pool[info.msg_id].length

FrontRecord ==
  IF mode = "stream" THEN FrontHead(sock)
                     ELSE Decode(Vals(SubSeq(Head(sock), 1, HeadSize)))

\* a reader pass has taken a record whose header has CHUNK clear
PlainTaken ==
  /\ sock # <<>>
  /\ mode = "stream" => Aligned(sock)
  /\ ~HasFlag(FrontRecord.flags, SW_EVENT_DATA_CHUNK)
  /\ Len(sock') < Len(sock)

\* C17: receiving a record with CHUNK clear, in stream or datagram mode,
\* leaves the reassembly pool as it was: no entry made, grown or removed.
C17_PoolUntouched == [][PlainTaken => pool' = pool]_vars

\* a non-chunked message was delivered while another was half assembled
C17_Witness ==
  \E k \in DOMAIN delivered :
    /\ ~is_chunked(delivered[k].head)
    /\ delivered[k].pkt.length >= 1
    /\ delivered[k].partial # {}

\* the slices of the records of write w, one after the other
RECURSIVE Joined(_)
Joined(rs) == IF rs = <<>> THEN <<>> ELSE Head(rs).bytes \o Joined(Tail(rs))

\* C18: the slices of a successful chunked write follow one another without
\* gap or overlap from offset 0, together they are the payload, each has at
\* least one byte and at most the chunk size in force, which is at most
\* buffer_size - sizeof(DataHead), and each but the last has exactly the
\* chunk size in force when it was sent.
C18_Slices ==
  \A i \in DOMAIN writes :
    LET w == writes[i]
    IN  ChunkedSeries(w) =>
          /\ Contiguous(w)
          /\ Joined(w.recs) = w.data
          /\ \A k \in DOMAIN w.recs :
               /\ w.recs[k].n >= 1
               /\ w.recs[k].n <= w.recs[k].max
               /\ w.recs[k].max <= buffer_size - HeadSize
               /\ w.recs[k].bytes
                    = SubSeq(w.data, w.recs[k].off + 1,
                             w.recs[k].off + w.recs[k].n)
               /\ k < Len(w.recs) => w.recs[k].n = w.recs[k].max

\* a successful series whose chunk size was lowered after the first record
C18_Witness ==
  \E i \in DOMAIN writes :
    /\ writes[i].ret
    /\ Len(writes[i].recs) >= 3
    /\ writes[i].recs[1].n > writes[i].recs[2].n
    /\ writes[i].recs[1].max > writes[i].recs[2].max

\* a chunk that carries BEGIN for msg_id k finds the entry the pool has
BeginReuses(pl, k) ==
  LET g == get_packet_buffer(
             [info |-> [ZeroHead EXCEPT
                          !.msg_id = k, !.len = 1,
                          !.flags = SetFlag(SW_EVENT_DATA_CHUNK,
                                            SW_EVENT_DATA_BEGIN)],
              pool |-> pl, buf |-> 0])
  IN  g.buf = k /\ g.pool = pl

PeekReturned ==
  /\ mode = "stream"
  /\ rc' = "peek"
  /\ UNCHANGED <<wire, writes>>

\* C20: when the header peek returns 0 read returns ERR, when it fails with
\* would-block read returns the quiet OK, when it fails with another error
\* read returns ERR; the socket and the pool are as they were.
C20_PeekOutcomes ==
  [][PeekReturned =>
       /\ pc' = "idle"
       /\ ret' = (IF errno' = "EAGAIN" THEN SW_OK ELSE SW_ERR)
       /\ sock' = sock
       /\ pool' = pool]_vars

\* the peek met would-block after the invocation had taken a chunk
C20_Witness ==
  /\ mode = "stream"
  /\ rc = "peek"
  /\ errno = "EAGAIN"
  /\ ret = SW_OK
  /\ recs >= 1
  /\ \E k \in DOMAIN pool : pool[k].length < pool[k].size

\* C21: every call of write draws exactly one id, whatever the payload and
\* whether it succeeds or fails; the id is in the caller's header and in the
\* header of every record the call tried to send, the retried and the
\* downshifted ones included; no two calls carry the same id
C21_OneId ==
  /\ next_id = Len(writes) + 1
  /\ \A i \in DOMAIN writes :
       /\ writes[i].info.msg_id = writes[i].msg_id
       /\ \A j \in DOMAIN writes[i].tries :
            writes[i].tries[j].head.msg_id = writes[i].msg_id
       /\ \A k \in DOMAIN writes :
            k # i => writes[k].info.msg_id # writes[i].info.msg_id

\* two calls, one that went on after a downshift and one that failed
C21_Witness ==
  /\ Len(writes) = 2
  /\ \E i \in DOMAIN writes :
       \E j \in DOMAIN writes[i].tries :
         /\ writes[i].tries[j].res = "REDUCE_SIZE"
         /\ j < Len(writes[i].tries)
  /\ \E i \in DOMAIN writes : ~writes[i].ret
  /\ \E i \in DOMAIN writes : writes[i].data = <<>>

\* the header of the chunk buffer with both pointer marks set
BothMarks ==
  [info EXCEPT !.flags = SetFlag(SetFlag(@, SW_EVENT_DATA_PTR),
                                 SW_EVENT_DATA_OBJ_PTR)]

\* C22: get_packet chooses by the flags of the chunk buffer. With DATA_PTR
\* it gives the pair pass stored: the length and the bytes of the task, not
\* the length of the header. With DATA_OBJ_PTR alone it gives the reassembly
\* buffer and the length accumulated in it. With neither it gives the
\* inline region and info.len. With both marks set DATA_PTR decides.
C22_Selects ==
  LET pkt == get_packet(info, data, pool)
      ptr == HasFlag(info.flags, SW_EVENT_DATA_PTR)
      obj == HasFlag(info.flags, SW_EVENT_DATA_OBJ_PTR)
  IN  ~ub =>
        /\ ptr /\ data.kind = "pkt" =>
             /\ pkt.length = data.id
             /\ pkt.data = data.bytes
             /\ ~pkt.wild
        /\ ptr /\ data.kind = "pkt" /\ info.len = PacketPtrSize =>
             /\ pkt.length >= 1
             /\ pkt.data = PayloadOf(info.reactor_id, pkt.length)
        /\ ~ptr /\ obj /\ data.kind = "obj" /\ data.id \in DOMAIN pool =>
             /\ pkt.length = pool[data.id].length
             /\ pkt.data = pool[data.id].str
             /\ ~pkt.wild
        /\ ~ptr /\ ~obj =>
             /\ pkt.length = info.len
             /\ Len(pkt.data) = info.len
             /\ data.kind = "bytes" =>
                  \A i \in 1..Min(info.len, Len(data.bytes)) :
                    pkt.data[i] = data.bytes[i]
        /\ data.kind = "pkt" =>
             get_packet(BothMarks, data, pool) =
               [length |-> data.id, data |-> data.bytes, null |-> FALSE,
                wild |-> FALSE]

\* a task of one byte went through pass after a reassembled message had
\* been delivered: the header says len = sizeof(PacketPtr), the packet 1
C22_Witness ==
  /\ ~ub
  /\ info.flags = SW_EVENT_DATA_PTR
  /\ info.len = PacketPtrSize
  /\ data.kind = "pkt"
  /\ get_packet(info, data, pool).length = 1
  /\ \E k \in DOMAIN delivered :
       /\ HasFlag(delivered[k].head.flags, SW_EVENT_DATA_OBJ_PTR)
       /\ delivered[k].pkt.length >= 2

\* C23: when the reassembly buffer of a BEGIN chunk cannot be allocated the
\* reader returns ERR and the pool holds no entry for the id of the chunk
C23_NoLeak ==
  errno = "ENOMEM" =>
    /\ rc # "bad_alloc"
    /\ ret = SW_ERR
    /\ info.msg_id \notin DOMAIN pool

\* attempt j of a call was followed by another attempt at the same offset
Retried(t, j) == j < Len(t) /\ t[j + 1].off = t[j].off

\* C24: a call of write ends after a bounded number of sends, whatever the
\* buffer size, the payload and the answers of the send function: at most
\* one send per payload byte and one more. An attempt is repeated at most
\* once in a call, and then with the size at the floor; every other
\* attempt that is followed by one takes at least one byte off what remains
C24_Terminates ==
  \A i \in DOMAIN writes :
    LET t == writes[i].tries
    IN  /\ Len(t) >= 1
        /\ Len(t) <= Len(writes[i].data) + 1
        /\ Cardinality({j \in DOMAIN t : Retried(t, j)}) <= 1
        /\ \A j \in DOMAIN t :
             /\ Retried(t, j) =>
                  /\ t[j].max > SW_IPC_BUFFER_SIZE
                  /\ t[j + 1].max = SW_IPC_BUFFER_SIZE
             /\ j < Len(t) /\ ~Retried(t, j) =>
                  /\ t[j].n >= 1
                  /\ t[j + 1].off = t[j].off + t[j].n
                  /\ t[j + 1].max = t[j].max

\* the longest payload went out after a refused first send: one send more
\* than it has bytes
C24_Witness ==
  \E i \in DOMAIN writes :
    /\ writes[i].ret
    /\ Len(writes[i].data) = MaxLenTwo
    /\ Len(writes[i].tries) = MaxLenTwo + 1
    /\ Retried(writes[i].tries, 1)

\* C25 as stated: with always_chunked_transfer every record of every call,
\* whatever the payload length, carries CHUNK
C25_AlwaysChunk ==
  always_chunked =>
    \A i \in DOMAIN writes :
      \A j \in DOMAIN writes[i].recs :
        HasFlag(writes[i].recs[j].flags, SW_EVENT_DATA_CHUNK)

\* C25: with always_chunked_transfer every record of a call with a payload
\* of one byte or more carries CHUNK, also when the payload fits in one
\* record; a call without payload sends the header alone with flags = 0
C25_ChunkedUnlessEmpty ==
  always_chunked =>
    \A i \in DOMAIN writes :
      IF writes[i].data = <<>>
        THEN /\ Len(writes[i].tries) = 1
             /\ writes[i].tries[1].flags = 0
             /\ writes[i].tries[1].head.len = 0
             /\ writes[i].tries[1].n = 0
        ELSE \A j \in DOMAIN writes[i].tries :
               HasFlag(writes[i].tries[j].flags, SW_EVENT_DATA_CHUNK)

\* a payload that fits in one record went out as a single chunk
C25_Witness ==
  /\ always_chunked
  /\ \E i \in DOMAIN writes :
       /\ writes[i].ret
       /\ Len(writes[i].data) = 1
       /\ Len(writes[i].recs) = 1
       /\ writes[i].recs[1].flags =
            SW_EVENT_DATA_CHUNK + SW_EVENT_DATA_BEGIN + SW_EVENT_DATA_END

\* a pass of read took cells off the stream and handled them as a chunk
ChunkTaken ==
  /\ mode = "stream"
  /\ Len(sock') < Len(sock)
  /\ rc' \in {"SW_READY", "SW_CONTINUE", "SW_WAIT"}
  /\ UNCHANGED sender

\* C26: on a stream that stands at the start of a record, a pass of read
\* over a chunk takes the cells of that record, all of them and no cell of
\* the next record, so that the stream stands at the start of a record
\* again; also for the records written after a downshift
C26_Aligned ==
  [][ChunkTaken /\ Aligned(sock) =>
       LET n == Len(sock) - Len(sock')
       IN  /\ \A i \in 1..n : /\ sock[i][2] = sock[1][2]
                               /\ sock[i][3] = sock[1][3]
           /\ Aligned(sock')
           /\ sock' # <<>> => <<sock'[1][2], sock'[1][3]>> # <<sock[1][2], sock[1][3]>>]_vars

\* a pass of read got past the peek and its readv failed with an errno
\* other than would-block
ReadvFailed ==
  /\ mode = "stream"
  /\ errno' \in {"EINTR", "EIO"}
  /\ rc' \notin {"peek", "read"}
  /\ UNCHANGED sender

\* C27: when the readv of a chunk fails with an errno that is not
\* would-block, read returns ERR at once: the record is not counted as a
\* chunk, DATA_OBJ_PTR is not set, READY is not reported, the reader does
\* not go back to the peek, and no reassembly buffer grows
C27_ReadvError ==
  [][ReadvFailed =>
       /\ pc' = "idle"
       /\ ret' = SW_ERR
       /\ rc' # "SW_READY"
       /\ recv_chunk_count' = (IF pc = "idle" THEN 0 ELSE recv_chunk_count)
       /\ ~HasFlag(info'.flags, SW_EVENT_DATA_OBJ_PTR)
       /\ \A k \in DOMAIN pool' :
            pool'[k].length = (IF k \in DOMAIN pool THEN pool[k].length ELSE 0)]_vars

\* C28: write returns true only when every record was accepted whole: an
\* attempt of which the send function took fewer bytes was sent again from
\* the same offset, and the offset never moves past an attempt that was not
\* accepted whole
C28_FullAccept ==
  \A i \in DOMAIN writes :
    LET t == writes[i].tries
    IN  /\ writes[i].ret =>
             \A j \in DOMAIN t :
               t[j].sent = HeadSize + t[j].n \/ Retried(t, j)
        /\ \A j \in DOMAIN t :
             j < Len(t) /\ t[j + 1].off > t[j].off =>
               t[j].sent = HeadSize + t[j].n

\* C29: the length of a reassembly buffer never takes in a read that was
\* shorter than the header: recv_n - sizeof(DataHead) is never negative, so
\* the length never drops below 0, and what remains of the message,
\* info.len - length, never goes below 0 either
C29_NoUnderflow ==
  \A k \in DOMAIN pool :
    /\ pool[k].length >= 0
    /\ pool[k].length <= pool[k].size

\* the header fields write has no business with are the same in a and b
SameFrame(a, b) ==
  /\ a.fd = b.fd
  /\ a.reactor_id = b.reactor_id
  /\ a.type = b.type
  /\ a.server_fd = b.server_fd
  /\ a.ext_flags = b.ext_flags
  /\ a.time = b.time

\* C30: of the caller's header write changes msg_id, flags and len only:
\* fd, reactor_id, type, server_fd, ext_flags and time are what the caller
\* set, in the header of every record the call tried to send and in the
\* caller's header after the call, whether it returned true or false; the
\* bytes sent are the caller's payload bytes at their offsets
C30_Frame ==
  \A i \in DOMAIN writes :
    /\ SameFrame(writes[i].info, writes[i].head)
    /\ \A j \in DOMAIN writes[i].tries :
         SameFrame(writes[i].tries[j].head, writes[i].head)
    /\ writes[i].data =
         PayloadOf(writes[i].head.reactor_id, Len(writes[i].data))
    /\ \A j \in DOMAIN writes[i].recs :
         LET rec == writes[i].recs[j]
         IN  rec.bytes = SubSeq(writes[i].data, rec.off + 1, rec.off + rec.n)

\* one call went through in several chunks, another failed after a
\* downshift
C30_Witness ==
  /\ Len(writes) = 2
  /\ \E i \in DOMAIN writes :
       /\ writes[i].ret
       /\ Len(writes[i].recs) >= 2
       /\ writes[i].info.flags # writes[i].head.flags
  /\ \E i \in DOMAIN writes :
       /\ ~writes[i].ret
       /\ Len(writes[i].tries) >= 2
       /\ Retried(writes[i].tries, 1)
====
